---- MODULE Spec2Model ----
(***************************************************************************)
(* State-machine model of the cache simulator: the three organizations     *)
(* (direct mapped, fully associative, set associative), the replacement    *)
(* engine (random, LRU, pseudo-LRU) and the access statistics.             *)
(***************************************************************************)
EXTENDS Integers, Sequences, FiniteSets, TLC

(***************************************************************************)
(* Enumerations of cache_simulator.hpp                                     *)
(***************************************************************************)
FULLY_ASSOCIATIVE == 0
DIRECT_MAPPED == 1
RANDOM == 0
LRU == 1
PSEUDO_LRU == 2

(***************************************************************************)
(* Bounds of the model                                                     *)
(***************************************************************************)
(* number of trace lines the driver feeds to one cache *)
MaxAccesses == 4

(* A member tag that the constructor never assigns holds whatever the      *)
(* allocator left there.  NoTag marks a tag that has not been read yet;    *)
(* the first scan that reads it fixes its value among UninitTags: zero     *)
(* (a fresh zero-filled page) or a bit pattern no address tag equals.      *)
NoTag == -1
GarbageTag == 2147483647
UninitTags == {0, GarbageTag}

(***************************************************************************)
(* Configurations the driver accepts (cache_size, block_size,              *)
(* associativity, replacement_policy), as read by main().                  *)
(***************************************************************************)
Config(cs, bs, as, pol) ==
    [cache_size |-> cs, block_size |-> bs, associativity |-> as, policy |-> pol]

Configs ==
    {Config(1024, 64, DIRECT_MAPPED, LRU), Config(128, 64, DIRECT_MAPPED, RANDOM)}
    \cup {Config(128, 64, FULLY_ASSOCIATIVE, p) : p \in {RANDOM, LRU, PSEUDO_LRU}}
    \cup {Config(64, 64, FULLY_ASSOCIATIVE, PSEUDO_LRU)}
    \cup {Config(1024, 64, 2, LRU), Config(128, 64, 2, PSEUDO_LRU)}

(* valid_pow2: x is 1 << i for some i in 0..30 *)
valid_pow2(x) == \E i \in 0..30 : x = 2^i

(* valid_assoc: x is 1 << i for some i in 1..5 *)
valid_assoc(x) == \E i \in 1..5 : x = 2^i

(* main(): the checks made before a simulation is started *)
Accepted(c) ==
    /\ valid_pow2(c.cache_size)
    /\ valid_pow2(c.block_size)
    /\ \/ c.associativity \in {DIRECT_MAPPED, FULLY_ASSOCIATIVE}
       \/ valid_assoc(c.associativity)

(***************************************************************************)
(* Geometry, Cache::Cache and the derived constructors                     *)
(***************************************************************************)
(* the loop "for i in 0..31: if ((1 << i) == x) { bits = i; break; }" *)
Log2Bits(x) == CHOOSE i \in 0..31 : 2^i = x

NumBlocks(c) == c.cache_size \div c.block_size
LineBits(c) == Log2Bits(c.block_size)
IndexBits(c) == Log2Bits(NumBlocks(c))

IsDirect(c) == c.associativity = DIRECT_MAPPED
IsFully(c) == c.associativity = FULLY_ASSOCIATIVE
IsSetAssoc(c) == ~IsDirect(c) /\ ~IsFully(c)

(* ways per set *)
Ways(c) ==
    IF IsDirect(c) THEN 1
    ELSE IF IsFully(c) THEN NumBlocks(c)
    ELSE c.associativity

(* number of sets; for the direct mapped cache every block is its own set *)
NumSets(c) ==
    IF IsDirect(c) THEN NumBlocks(c)
    ELSE IF IsFully(c) THEN 1
    ELSE NumBlocks(c) \div c.associativity

(* CacheBlock::CacheBlock: valid and dirty are cleared, tag is not assigned. *)
(* id is the identity of the object (the CacheBlock pointer).               *)
NewBlock(i) == [id |-> i, valid |-> FALSE, dirty |-> FALSE, tag |-> NoTag]

(* the vector(s) of blocks built by the three constructors *)
NewBlocks(c) ==
    [s \in 0..(NumSets(c) - 1) |->
        [w \in 1..Ways(c) |-> NewBlock(s * Ways(c) + (w - 1))]]

(* CacheReplace::CacheReplace: the pseudo-LRU tree of every set *)
NewMetaData(c) ==
    IF ~IsDirect(c) /\ c.policy = PSEUDO_LRU
    THEN [s \in 0..(NumSets(c) - 1) |->
            [j \in 1..(2 * Ways(c) - 1) |-> IF j - 1 < Ways(c) - 1 THEN 0 ELSE -1]]
    ELSE [s \in 0..(NumSets(c) - 1) |-> << >>]

(* AccessInfo::AccessInfo *)
NewAccessInfo ==
    [cache_access |-> 0, read_access |-> 0, write_access |-> 0,
     cache_misses |-> 0, compulsory_misses |-> 0, capacity_misses |-> 0,
     conflict_misses |-> 0, read_misses |-> 0, write_misses |-> 0,
     dirty_blocks_evicted |-> 0]

(***************************************************************************)
(* Address decoding, as computed at the head of every read and write       *)
(***************************************************************************)
BlockAddress(c, address) == address \div 2^LineBits(c)

(* the tag taken one bit too high *)
AddrTag_OneBitShort(c, address) == address \div 2^(LineBits(c) + IndexBits(c) + 1)

AddrTag(c, address) == address \div 2^(LineBits(c) + IndexBits(c))

SetIndex(c, address) ==
    IF IsFully(c) THEN 0 ELSE BlockAddress(c, address) % NumSets(c)

(* Addresses of the trace, chosen from the geometry: block 0, the block    *)
(* after it, and the addresses one and two cache sizes on.                 *)
Addresses(c) == {0, c.block_size, c.cache_size, 2 * c.cache_size}

(***************************************************************************)
(* Cache::is_accessed                                                      *)
(***************************************************************************)
(* is_accessed that looks at the most recent entry of the history only *)
InHistory_LastOnly(hist, block_address) ==
    Len(hist) > 0 /\ hist[Len(hist)] = block_address

InHistory(hist, block_address) == \E i \in 1..Len(hist) : hist[i] = block_address

HistoryAfter(hist, block_address) ==
    IF InHistory(hist, block_address) THEN hist ELSE Append(hist, block_address)

(* ++ on a uint32_t counter; the trace bound keeps every counter far below *)
(* the point where it would wrap                                           *)
Inc(x) == x + 1

(***************************************************************************)
(* CacheReplace                                                            *)
(***************************************************************************)
(* values of rand() that matter: victim_index = rand() % ways *)
RandValues == 0..3

(* the tree walk of the PSEUDO_LRU case: left on 0, right otherwise *)
RECURSIVE TreeWalk(_, _, _)
TreeWalk(set_meta_data, ways, current_index) ==
    IF current_index < ways - 1
    THEN TreeWalk(set_meta_data, ways,
                  IF set_meta_data[current_index + 1] = 0
                  THEN 2 * current_index + 1
                  ELSE 2 * current_index + 2)
    ELSE current_index

(* a pseudo-LRU selection that looks at the leaf it reaches and moves on to *)
(* the next way when that leaf has been written                            *)
get_victim_index_ReadsLeaf(policy, ways, set_meta_data, rnd) ==
    CASE policy = RANDOM -> rnd % ways
      [] policy = LRU -> 0
      [] policy = PSEUDO_LRU ->
            LET leaf == TreeWalk(set_meta_data, ways, 0)
            IN IF set_meta_data[leaf + 1] = -1
               THEN leaf - ways + 1
               ELSE (leaf - ways + 2) % ways
      [] OTHER -> -1

(* CacheReplace::get_victim_index; rnd is the value rand() returns *)
get_victim_index(policy, ways, set_meta_data, rnd) ==
    CASE policy = RANDOM -> rnd % ways
      [] policy = LRU -> 0
      [] policy = PSEUDO_LRU -> TreeWalk(set_meta_data, ways, 0) - ways + 1
      [] OTHER -> -1

(* int division of C: the quotient is truncated towards zero *)
CDiv(a, b) == IF a >= 0 THEN a \div b ELSE -((-a) \div b)

(* the do-while of mark_accessed: flip every ancestor up to the root *)
RECURSIVE FlipAncestors(_, _)
FlipAncestors(set_meta_data, current_index) ==
    LET parent == CDiv(current_index - 1, 2)
        flipped == [set_meta_data EXCEPT ![parent + 1] = IF @ # 0 THEN 0 ELSE 1]
    IN IF parent > 0 THEN FlipAncestors(flipped, parent) ELSE flipped

(* mark_accessed leaving the vector in its order *)
MoveToBack_KeepsOrder(data, block_index) == data

(* the LRU case of mark_accessed: erase the block and push it at the back *)
MoveToBack(data, block_index) ==
    LET k == block_index + 1
    IN Append(SubSeq(data, 1, k - 1) \o SubSeq(data, k + 1, Len(data)), data[k])

(* mark_accessed whose loop stops after the parent of the leaf *)
mark_accessed_ParentOnly(policy, ways, data, set_meta_data, block_index) ==
    [data |-> IF policy = LRU THEN MoveToBack(data, block_index) ELSE data,
     meta_data |->
        IF policy = PSEUDO_LRU
        THEN [set_meta_data EXCEPT
                 ![block_index + ways] = data[block_index + 1].tag,
                 ![CDiv(ways - 1 + block_index - 1, 2) + 1] = IF @ # 0 THEN 0 ELSE 1]
        ELSE set_meta_data]

(* mark_accessed that moves the block to the back under every policy *)
mark_accessed_AlwaysMoves(policy, ways, data, set_meta_data, block_index) ==
    [data |-> MoveToBack(data, block_index),
     meta_data |->
        IF policy = PSEUDO_LRU
        THEN FlipAncestors(
                 [set_meta_data EXCEPT ![block_index + ways] = data[block_index + 1].tag],
                 ways - 1 + block_index)
        ELSE set_meta_data]

(* CacheReplace::mark_accessed: the set's blocks and tree after the call *)
mark_accessed(policy, ways, data, set_meta_data, block_index) ==
    [data |-> IF policy = LRU THEN MoveToBack(data, block_index) ELSE data,
     meta_data |->
        IF policy = PSEUDO_LRU
        THEN FlipAncestors(
                 [set_meta_data EXCEPT ![block_index + ways] = data[block_index + 1].tag],
                 ways - 1 + block_index)
        ELSE set_meta_data]

(***************************************************************************)
(* The scan of a set in the associative organizations                      *)
(***************************************************************************)
(* the values the never assigned tags of a set turn out to hold *)
TagChoices(data) ==
    [{w \in 1..Len(data) : data[w].tag = NoTag} -> UninitTags]

Materialize(data, g) ==
    [w \in 1..Len(data) |->
        IF data[w].tag = NoTag THEN [data[w] EXCEPT !.tag = g[w]] ELSE data[w]]

(* "Check if tag is already present, also find index of first empty block" *)
RECURSIVE ScanFrom(_, _, _, _)
ScanFrom(data, addr_tag, i, empty) ==
    IF i >= Len(data)
    THEN [empty_block_index |-> empty, found_block_index |-> -1]
    ELSE LET block == data[i + 1]
             e == IF block.valid = FALSE /\ empty = -1 THEN i ELSE empty
         IN IF block.tag = addr_tag
            THEN [empty_block_index |-> e, found_block_index |-> i]
            ELSE ScanFrom(data, addr_tag, i + 1, e)

(* a scan that remembers the last empty block it passes, not the first *)
Scan_LastEmpty(data, addr_tag) ==
    LET s == ScanFrom(data, addr_tag, 0, -1)
        empties == {i \in 0..(Len(data) - 1) : data[i + 1].valid = FALSE}
    IN IF s.found_block_index = -1 /\ empties # {}
       THEN [s EXCEPT !.empty_block_index =
                CHOOSE i \in empties : \A j \in empties : j <= i]
       ELSE s

(* the scan loop stopping one way short of the end of the set *)
Scan_SkipsLast(data, addr_tag) ==
    ScanFrom(SubSeq(data, 1, Len(data) - 1), addr_tag, 0, -1)

Scan(data, addr_tag) == ScanFrom(data, addr_tag, 0, -1)

(* the fill without "block->tag = addr_tag" *)
FillBlock_NoTag(block, addr_tag) == [block EXCEPT !.valid = TRUE]

(* an empty block is taken: "block->valid = true; block->tag = addr_tag" *)
FillBlock(block, addr_tag) == [block EXCEPT !.valid = TRUE, !.tag = addr_tag]

(* an eviction that hands the victim back as an empty block *)
EvictBlock_Invalidates(block, addr_tag) ==
    [block EXCEPT !.valid = FALSE, !.dirty = FALSE, !.tag = addr_tag]

(* the victim is written back if dirty and gets the new tag *)
EvictBlock(block, addr_tag) == [block EXCEPT !.dirty = FALSE, !.tag = addr_tag]

(* every eviction counted as a dirty eviction *)
CountEviction_Always(info, victim_block) ==
    [info EXCEPT !.dirty_blocks_evicted = Inc(@)]

(* "if (victim_block->dirty) dirty_blocks_evicted++" *)
CountEviction(info, victim_block) ==
    IF victim_block.dirty
    THEN [info EXCEPT !.dirty_blocks_evicted = Inc(@)]
    ELSE info

(* CountRepeatMiss with the "cache_misses++" of the replacement branch left out *)
CountRepeatMiss_NoTotal(info, counter, previously_accessed, is_write) ==
    IF previously_accessed
    THEN [info EXCEPT
            ![counter] = Inc(@),
            !.read_misses = IF is_write THEN @ ELSE Inc(@),
            !.write_misses = IF is_write THEN Inc(@) ELSE @]
    ELSE info

(* a write that does not attribute its repeated miss *)
CountRepeatMiss_ReadsOnly(info, counter, previously_accessed, is_write) ==
    IF previously_accessed /\ ~is_write
    THEN [info EXCEPT
            ![counter] = Inc(@),
            !.cache_misses = Inc(@),
            !.read_misses = Inc(@)]
    ELSE info

(* the replacement branch counting its miss without asking whether the     *)
(* block address was seen before                                           *)
CountRepeatMiss_Always(info, counter, previously_accessed, is_write) ==
    [info EXCEPT
        ![counter] = Inc(@),
        !.cache_misses = Inc(@),
        !.read_misses = IF is_write THEN @ ELSE Inc(@),
        !.write_misses = IF is_write THEN Inc(@) ELSE @]

(* the miss of a block address seen before: capacity in the associative    *)
(* organizations, conflict in the direct mapped one                        *)
CountRepeatMiss(info, counter, previously_accessed, is_write) ==
    IF previously_accessed
    THEN [info EXCEPT
            ![counter] = Inc(@),
            !.cache_misses = Inc(@),
            !.read_misses = IF is_write THEN @ ELSE Inc(@),
            !.write_misses = IF is_write THEN Inc(@) ELSE @]
    ELSE info

(* The part of read and write after the scan that the four associative     *)
(* handlers share: hit, eviction of the policy's victim, or fill of the    *)
(* first empty block.  Gives the set, the counters, the index of the       *)
(* resolved block and what happened.                                       *)
Resolve(c, data, set_meta_data, info, addr_tag, previously_accessed, rnd, is_write) ==
    LET s == Scan(data, addr_tag)
    IN IF s.found_block_index # -1
       THEN [data |-> data, info |-> info,
             found_block_index |-> s.found_block_index, kind |-> "hit"]
       ELSE IF s.empty_block_index = -1
       THEN LET info1 == CountRepeatMiss(info, "capacity_misses",
                                         previously_accessed, is_write)
                victim_index == get_victim_index(c.policy, Ways(c), set_meta_data, rnd)
                victim_block == data[victim_index + 1]
            IN [data |-> [data EXCEPT ![victim_index + 1] = EvictBlock(@, addr_tag)],
                info |-> CountEviction(info1, victim_block),
                found_block_index |-> victim_index, kind |-> "evict"]
       ELSE [data |-> [data EXCEPT ![s.empty_block_index + 1] = FillBlock(@, addr_tag)],
             info |-> info,
             found_block_index |-> s.empty_block_index, kind |-> "fill"]

(* CountAccess where write keeps the "read_misses++" of the read it was    *)
(* copied from                                                             *)
CountAccess_ReadMissInWrite(info, previously_accessed, is_write) ==
    LET info1 == [info EXCEPT
                    !.cache_access = Inc(@),
                    !.read_access = IF is_write THEN @ ELSE Inc(@),
                    !.write_access = IF is_write THEN Inc(@) ELSE @]
    IN IF ~previously_accessed
       THEN [info1 EXCEPT
                !.compulsory_misses = Inc(@),
                !.cache_misses = Inc(@),
                !.read_misses = Inc(@)]
       ELSE info1

(* the first lines of every read and write: the access counters, and the   *)
(* compulsory miss of a block address that is not in the history           *)
CountAccess(info, previously_accessed, is_write) ==
    LET info1 == [info EXCEPT
                    !.cache_access = Inc(@),
                    !.read_access = IF is_write THEN @ ELSE Inc(@),
                    !.write_access = IF is_write THEN Inc(@) ELSE @]
    IN IF ~previously_accessed
       THEN [info1 EXCEPT
                !.compulsory_misses = Inc(@),
                !.cache_misses = Inc(@),
                !.read_misses = IF is_write THEN @ ELSE Inc(@),
                !.write_misses = IF is_write THEN Inc(@) ELSE @]
       ELSE info1

(***************************************************************************)
(* State                                                                   *)
(***************************************************************************)
VARIABLES
    cfg,              \* the configuration main() read
    alive,            \* the simulation is running (construction succeeded)
    cache_blocks,     \* set index -> the vector of blocks of the set
    meta_data,        \* CacheReplace::meta_data: set index -> tree array
    access_info,      \* the ten counters
    accessed_blocks,  \* Cache::accessed_blocks, the history list
    trace,            \* the trace lines consumed so far: <<operation, address>>
    last,             \* locals of the last read or write call
    touched           \* per trace line, the block the call ended on

vars == <<cfg, alive, cache_blocks, meta_data, access_info, accessed_blocks, trace, last,
          touched>>

NoCall == [kind |-> "none", set_index |-> -1, id |-> -1, previously_accessed |-> FALSE]

(* main() up to the construction of the cache.  SetAssocCache's constructor *)
(* indexes cache_blocks after reserve() only, which is undefined: the       *)
(* build either finds empty vectors there and carries on, or faults.        *)
Init ==
    /\ cfg \in {c \in Configs : Accepted(c)}
    /\ alive \in (IF IsSetAssoc(cfg) THEN BOOLEAN ELSE {TRUE})
    /\ cache_blocks = NewBlocks(cfg)
    /\ meta_data = NewMetaData(cfg)
    /\ access_info = NewAccessInfo
    /\ accessed_blocks = << >>
    /\ trace = << >>
    /\ last = NoCall
    /\ touched = << >>

(* the driver loop: one more line of the trace file is read *)
NextLine(op, address) ==
    /\ alive
    /\ Len(trace) < MaxAccesses
    /\ address \in Addresses(cfg)
    /\ trace' = Append(trace, <<op, address>>)

(* the direct mapped branches with a tag comparison that never succeeds *)
DirectKind_NoHit(block, addr_tag) ==
    IF block.valid = FALSE THEN "fill" ELSE "evict"

(***************************************************************************)
(* DirectMappedCache::read and ::write                                     *)
(***************************************************************************)
(* the three branches on the indexed block: empty, tag match, replacement *)
DirectKind(block, addr_tag) ==
    IF block.valid = FALSE THEN "fill"
    ELSE IF block.tag = addr_tag THEN "hit"
    ELSE "evict"

DirectAccess(address, is_write) ==
    LET block_address == BlockAddress(cfg, address)
        index == block_address % NumBlocks(cfg)
        addr_tag == AddrTag(cfg, address)
        previously_accessed == InHistory(accessed_blocks, block_address)
    IN \E block \in {cache_blocks[index][1]} :
       \E kind \in {DirectKind(block, addr_tag)} :
       \E info \in {CountAccess(access_info, previously_accessed, is_write)} :
       \E block1 \in {CASE kind = "fill" -> FillBlock(block, addr_tag)
                        [] kind = "hit" -> block
                        [] kind = "evict" -> EvictBlock(block, addr_tag)} :
            /\ accessed_blocks' = HistoryAfter(accessed_blocks, block_address)
            /\ access_info' =
                  IF kind = "evict"
                  THEN CountEviction(
                           CountRepeatMiss(info, "conflict_misses",
                                           previously_accessed, is_write),
                           block)
                  ELSE info
            /\ cache_blocks' =
                  [cache_blocks EXCEPT ![index] =
                      <<IF is_write THEN [block1 EXCEPT !.dirty = TRUE] ELSE block1>>]
            /\ last' = [kind |-> kind, set_index |-> index, id |-> block.id,
                        previously_accessed |-> previously_accessed]
            /\ touched' = Append(touched, block.id)
            /\ UNCHANGED <<cfg, alive, meta_data>>

DirectMappedRead(address) ==
    /\ IsDirect(cfg)
    /\ NextLine("r", address)
    /\ DirectAccess(address, FALSE)

DirectMappedWrite(address) ==
    /\ IsDirect(cfg)
    /\ NextLine("w", address)
    /\ DirectAccess(address, TRUE)

(***************************************************************************)
(* FullyAssocCache and SetAssocCache: read and write                       *)
(***************************************************************************)
(* rand() is called when a victim is needed and the policy is RANDOM *)
RandDraws(c, data, addr_tag) ==
    IF c.policy = RANDOM /\ Scan(data, addr_tag) = [empty_block_index |-> -1,
                                                    found_block_index |-> -1]
    THEN RandValues
    ELSE {0}

AssocAccess(set_index, address, is_write) ==
    LET addr_tag == AddrTag(cfg, address)
        block_address == BlockAddress(cfg, address)
        previously_accessed == InHistory(accessed_blocks, block_address)
    IN \E g \in TagChoices(cache_blocks[set_index]) :
       \E data \in {Materialize(cache_blocks[set_index], g)} :
       \E rnd \in RandDraws(cfg, data, addr_tag) :
       \E r \in {Resolve(cfg, data, meta_data[set_index],
                         CountAccess(access_info, previously_accessed, is_write),
                         addr_tag, previously_accessed, rnd, is_write)} :
       \E written \in {IF is_write
                       THEN [r.data EXCEPT ![r.found_block_index + 1].dirty = TRUE]
                       ELSE r.data} :
       \E m \in {mark_accessed(cfg.policy, Ways(cfg), written,
                               meta_data[set_index], r.found_block_index)} :
            /\ accessed_blocks' = HistoryAfter(accessed_blocks, block_address)
            /\ access_info' = r.info
            /\ cache_blocks' = [cache_blocks EXCEPT ![set_index] = m.data]
            /\ meta_data' = [meta_data EXCEPT ![set_index] = m.meta_data]
            /\ last' = [kind |-> r.kind, set_index |-> set_index,
                        id |-> written[r.found_block_index + 1].id,
                        previously_accessed |-> previously_accessed]
            /\ touched' = Append(touched, written[r.found_block_index + 1].id)
            /\ UNCHANGED <<cfg, alive>>

FullyAssocRead(address) ==
    /\ IsFully(cfg)
    /\ NextLine("r", address)
    /\ AssocAccess(0, address, FALSE)

FullyAssocWrite(address) ==
    /\ IsFully(cfg)
    /\ NextLine("w", address)
    /\ AssocAccess(0, address, TRUE)

SetAssocRead(address) ==
    /\ IsSetAssoc(cfg)
    /\ NextLine("r", address)
    /\ AssocAccess(BlockAddress(cfg, address) % NumSets(cfg), address, FALSE)

SetAssocWrite(address) ==
    /\ IsSetAssoc(cfg)
    /\ NextLine("w", address)
    /\ AssocAccess(BlockAddress(cfg, address) % NumSets(cfg), address, TRUE)

AllAddresses == UNION {Addresses(c) : c \in Configs}

Next ==
    \E address \in AllAddresses :
        \/ DirectMappedRead(address)
        \/ DirectMappedWrite(address)
        \/ FullyAssocRead(address)
        \/ FullyAssocWrite(address)
        \/ SetAssocRead(address)
        \/ SetAssocWrite(address)

Spec == Init /\ [][Next]_vars

(***************************************************************************)
(* The replacement engine on its own: a CacheReplace object as the         *)
(* constructors build it, driven by any sequence of mark_accessed and      *)
(* get_victim_index calls with indices in range, the cache installing tags *)
(* in between.  The state is the one of the simulator; the counters, the   *)
(* history and the trace are not involved and stay as constructed.  last   *)
(* holds the call just made: kind "victim" with the returned index in id,  *)
(* or kind "mark" with the way in id.                                      *)
(***************************************************************************)
(* geometries of 0, 1, 2 and 4 ways in one set, 2 ways in two sets, and a  *)
(* policy number above PSEUDO_LRU, which main() reports and lets through   *)
ReplConfigs ==
    {Config(cs, 64, FULLY_ASSOCIATIVE, p) :
        cs \in {64, 128, 256}, p \in {RANDOM, LRU, PSEUDO_LRU}}
    \cup {Config(256, 64, 2, PSEUDO_LRU)}
    \cup {Config(64, 128, FULLY_ASSOCIATIVE, p) : p \in {RANDOM, LRU}}
    \cup {Config(128, 64, FULLY_ASSOCIATIVE, PSEUDO_LRU + 1)}

(* a tag the cache installs in a block before it marks it accessed *)
ReplTags == {1}

ReplCall(kind, set_index, index) ==
    [kind |-> kind, set_index |-> set_index, id |-> index,
     previously_accessed |-> FALSE]

(* Construction.  The tags are whatever the allocator left.  Printing      *)
(* replacement_policy_str[replacement_policy] for a policy above           *)
(* PSEUDO_LRU reads past the array, and SetAssocCache's constructor        *)
(* indexes a reserved vector: either may fault before the first access.    *)
ReplInit ==
    /\ cfg \in {c \in ReplConfigs : Accepted(c)}
    /\ alive \in (IF IsSetAssoc(cfg) \/ cfg.policy > PSEUDO_LRU
                  THEN BOOLEAN ELSE {TRUE})
    /\ \E t \in UninitTags :
          cache_blocks =
              [s \in 0..(NumSets(cfg) - 1) |->
                  [w \in 1..Ways(cfg) |->
                      [NewBlock(s * Ways(cfg) + (w - 1)) EXCEPT !.tag = t]]]
    /\ meta_data = NewMetaData(cfg)
    /\ access_info = NewAccessInfo
    /\ accessed_blocks = << >>
    /\ trace = << >>
    /\ last = NoCall
    /\ touched = << >>

(* the cache fills or replaces a block: "block->tag = addr_tag" *)
ReplInstall(set_index, block_index, addr_tag) ==
    /\ alive
    /\ set_index \in 0..(NumSets(cfg) - 1)
    /\ block_index \in 0..(Ways(cfg) - 1)
    /\ addr_tag \in ReplTags
    /\ cache_blocks' = [cache_blocks EXCEPT ![set_index][block_index + 1] =
                            FillBlock(@, addr_tag)]
    /\ UNCHANGED <<cfg, alive, meta_data, access_info, accessed_blocks, trace,
                   last, touched>>

(* cache_repl->mark_accessed(set_index, data, block_index) *)
ReplMarkAccessed(set_index, block_index) ==
    /\ alive
    /\ set_index \in 0..(NumSets(cfg) - 1)
    /\ block_index \in 0..(Ways(cfg) - 1)
    /\ \E m \in {mark_accessed(cfg.policy, Ways(cfg), cache_blocks[set_index],
                                meta_data[set_index], block_index)} :
          /\ cache_blocks' = [cache_blocks EXCEPT ![set_index] = m.data]
          /\ meta_data' = [meta_data EXCEPT ![set_index] = m.meta_data]
    /\ last' = ReplCall("mark", set_index, block_index)
    /\ UNCHANGED <<cfg, alive, access_info, accessed_blocks, trace, touched>>

(* a selection that also records the way it returns as accessed *)
ReplGetVictim_Marks(set_index, rnd) ==
    /\ alive
    /\ set_index \in 0..(NumSets(cfg) - 1)
    /\ rnd \in RandValues
    /\ Ways(cfg) > 0 /\ cfg.policy <= PSEUDO_LRU
    /\ \E victim_index \in {get_victim_index(cfg.policy, Ways(cfg),
                                               meta_data[set_index], rnd)} :
       \E m \in {mark_accessed(cfg.policy, Ways(cfg), cache_blocks[set_index],
                                meta_data[set_index], victim_index)} :
          /\ cache_blocks' = [cache_blocks EXCEPT ![set_index] = m.data]
          /\ meta_data' = [meta_data EXCEPT ![set_index] = m.meta_data]
          /\ last' = ReplCall("victim", set_index, victim_index)
    /\ UNCHANGED <<cfg, alive, access_info, accessed_blocks, trace, touched>>

(* cache_repl->get_victim_index(set_index, data): only locals are          *)
(* assigned.  With no ways "rand() % this->ways" divides by zero, which    *)
(* traps or yields any value.                                              *)
ReplGetVictim(set_index, rnd) ==
    /\ alive
    /\ set_index \in 0..(NumSets(cfg) - 1)
    /\ rnd \in RandValues
    /\ IF cfg.policy = RANDOM /\ Ways(cfg) = 0
       THEN \/ alive' = FALSE /\ last' = ReplCall("fault", set_index, -1)
            \/ alive' = alive /\ last' = ReplCall("victim", set_index, rnd)
       ELSE /\ alive' = alive
            /\ last' = ReplCall("victim", set_index,
                                get_victim_index(cfg.policy, Ways(cfg),
                                                 meta_data[set_index], rnd))
    /\ UNCHANGED <<cfg, cache_blocks, meta_data, access_info, accessed_blocks,
                   trace, touched>>

ReplNext ==
    \E set_index \in 0..1, index \in RandValues, addr_tag \in ReplTags :
        \/ ReplInstall(set_index, index, addr_tag)
        \/ ReplMarkAccessed(set_index, index)
        \/ ReplGetVictim(set_index, index)

ReplSpec == ReplInit /\ [][ReplNext]_vars

(***************************************************************************)
(* Two caches side by side, fed the same addresses.  Every variable holds  *)
(* a pair: the value of the first and of the second cache.  The handlers   *)
(* are the ones above, written as functions from the state of one cache to *)
(* its next state.  The policies are the ones that draw no random number.  *)
(***************************************************************************)
(* number of trace lines fed to the pair *)
MaxPairAccesses == 3

(* the state of one cache *)
CacheState(blocks, trees, info, hist) ==
    [cache_blocks |-> blocks, meta_data |-> trees, access_info |-> info,
     accessed_blocks |-> hist]

(* DirectMappedCache::read and ::write on the state st *)
DirectStep(c, st, address, is_write) ==
    LET block_address == BlockAddress(c, address)
        index == block_address % NumBlocks(c)
        addr_tag == AddrTag(c, address)
        previously_accessed == InHistory(st.accessed_blocks, block_address)
        block == st.cache_blocks[index][1]
        kind == DirectKind(block, addr_tag)
        info == CountAccess(st.access_info, previously_accessed, is_write)
        block1 == CASE kind = "fill" -> FillBlock(block, addr_tag)
                    [] kind = "hit" -> block
                    [] kind = "evict" -> EvictBlock(block, addr_tag)
    IN CacheState(
           [st.cache_blocks EXCEPT ![index] =
               <<IF is_write THEN [block1 EXCEPT !.dirty = TRUE] ELSE block1>>],
           st.meta_data,
           IF kind = "evict"
           THEN CountEviction(CountRepeatMiss(info, "conflict_misses",
                                              previously_accessed, is_write),
                              block)
           ELSE info,
           HistoryAfter(st.accessed_blocks, block_address))

(* FullyAssocCache and SetAssocCache read and write on the state st, whose *)
(* tags have all been given their values                                   *)
AssocStep(c, st, address, is_write) ==
    LET set_index == SetIndex(c, address)
        addr_tag == AddrTag(c, address)
        block_address == BlockAddress(c, address)
        previously_accessed == InHistory(st.accessed_blocks, block_address)
        r == Resolve(c, st.cache_blocks[set_index], st.meta_data[set_index],
                     CountAccess(st.access_info, previously_accessed, is_write),
                     addr_tag, previously_accessed, 0, is_write)
        written == IF is_write
                   THEN [r.data EXCEPT ![r.found_block_index + 1].dirty = TRUE]
                   ELSE r.data
        m == mark_accessed(c.policy, Ways(c), written, st.meta_data[set_index],
                           r.found_block_index)
    IN CacheState([st.cache_blocks EXCEPT ![set_index] = m.data],
                  [st.meta_data EXCEPT ![set_index] = m.meta_data],
                  r.info,
                  HistoryAfter(st.accessed_blocks, block_address))

CacheStep(c, st, address, is_write) ==
    IF IsDirect(c)
    THEN DirectStep(c, st, address, is_write)
    ELSE AssocStep(c, st, address, is_write)

(* a fully associative cache with the set-associative cache of one set of  *)
(* the same size, and every cache with itself                              *)
PairConfigs ==
    {<<Config(128, 64, FULLY_ASSOCIATIVE, p), Config(128, 64, 2, p)>> :
        p \in {LRU, PSEUDO_LRU}}
    \cup {<<c, c>> : c \in {c \in Configs : IsDirect(c) \/ c.policy # RANDOM}}

(* addresses with tags 0, 1 and 2 in one set *)
PairAddresses(c) == {0, c.cache_size, 2 * c.cache_size}

(* the blocks as constructed, the never assigned tags holding t *)
NewBlocksWith(c, t) ==
    [s \in 0..(NumSets(c) - 1) |->
        [w \in 1..Ways(c) |-> [NewBlock(s * Ways(c) + (w - 1)) EXCEPT !.tag = t]]]

(* Two caches of different classes are separate allocations: their         *)
(* never assigned tags are unrelated.  The same cache run twice, the runs  *)
(* differing in the operations only, starts from the same memory.          *)
PairInit ==
    /\ cfg \in {p \in PairConfigs : Accepted(p[1]) /\ Accepted(p[2])}
    /\ alive \in (IF IsSetAssoc(cfg[1]) \/ IsSetAssoc(cfg[2])
                  THEN BOOLEAN ELSE {TRUE})
    /\ \E t1, t2 \in UninitTags :
          /\ cfg[1] = cfg[2] => t1 = t2
          /\ cache_blocks = <<NewBlocksWith(cfg[1], t1), NewBlocksWith(cfg[2], t2)>>
    /\ meta_data = <<NewMetaData(cfg[1]), NewMetaData(cfg[2])>>
    /\ access_info = <<NewAccessInfo, NewAccessInfo>>
    /\ accessed_blocks = << << >>, << >> >>
    /\ trace = << << >>, << >> >>
    /\ last = NoCall
    /\ touched = << >>

PairState(i) ==
    CacheState(cache_blocks[i], meta_data[i], access_info[i], accessed_blocks[i])

(* one more line of the trace: the same address to both caches; the same   *)
(* operation when the caches differ, any two operations when they are the  *)
(* same cache                                                              *)
PairAccess(address, op1, op2) ==
    /\ alive
    /\ Len(trace[1]) < MaxPairAccesses
    /\ address \in PairAddresses(cfg[1])
    /\ cfg[1] # cfg[2] => op1 = op2
    /\ \E s1 \in {CacheStep(cfg[1], PairState(1), address, op1 = "w")} :
       \E s2 \in {CacheStep(cfg[2], PairState(2), address, op2 = "w")} :
          /\ cache_blocks' = <<s1.cache_blocks, s2.cache_blocks>>
          /\ meta_data' = <<s1.meta_data, s2.meta_data>>
          /\ access_info' = <<s1.access_info, s2.access_info>>
          /\ accessed_blocks' = <<s1.accessed_blocks, s2.accessed_blocks>>
    /\ trace' = <<Append(trace[1], <<op1, address>>),
                  Append(trace[2], <<op2, address>>)>>
    /\ UNCHANGED <<cfg, alive, last, touched>>

PairNext ==
    \E address \in AllAddresses, op1, op2 \in {"r", "w"} :
        PairAccess(address, op1, op2)

PairSpec == PairInit /\ [][PairNext]_vars

(***************************************************************************)
(* Vocabulary of the properties                                            *)
(***************************************************************************)
Called == Len(trace) > 0
LastOp == trace[Len(trace)][1]
LastAddress == trace[Len(trace)][2]

(* a read or write call is made in this step *)
Call == trace' # trace
CallOp == trace'[Len(trace')][1]
CallAddress == trace'[Len(trace')][2]

(* the block addresses the trace has presented so far *)
Presented == {BlockAddress(cfg, trace[i][2]) : i \in 1..Len(trace)}

(* all blocks of the cache, and the block with a given identity *)
AllBlocks(blocks) ==
    {blocks[s][w] : s \in {s \in DOMAIN blocks : blocks[s] # << >>}, w \in 1..Ways(cfg)}
BlockOf(blocks, id) == CHOOSE b \in AllBlocks(blocks) : b.id = id

MissCounters(info) ==
    <<info.cache_misses, info.read_misses, info.write_misses,
      info.compulsory_misses, info.capacity_misses, info.conflict_misses>>

(***************************************************************************)
(* C1: after any sequence of accesses, in every organization and under     *)
(* every policy, the compulsory, capacity and conflict misses add up to    *)
(* cache_misses.                                                           *)
(***************************************************************************)
C1_MissCategoriesSum ==
    access_info.compulsory_misses + access_info.capacity_misses
        + access_info.conflict_misses = access_info.cache_misses

(* a run that has counted compulsory misses and a capacity miss, by reads  *)
(* and by writes                                                           *)
C1_Witness ==
    /\ access_info.capacity_misses >= 1
    /\ access_info.compulsory_misses >= 2
    /\ access_info.read_misses >= 1
    /\ access_info.write_misses >= 1

(***************************************************************************)
(* C2: the read/write split of both totals is exact; a read never changes  *)
(* a write counter and a write never changes a read counter.               *)
(***************************************************************************)
C2_SplitExact ==
    /\ access_info.cache_access = access_info.read_access + access_info.write_access
    /\ access_info.cache_misses = access_info.read_misses + access_info.write_misses

C2_NoCrossCount ==
    Call =>
        /\ CallOp = "r" =>
              /\ access_info'.write_access = access_info.write_access
              /\ access_info'.write_misses = access_info.write_misses
              /\ access_info'.read_access = access_info.read_access + 1
        /\ CallOp = "w" =>
              /\ access_info'.read_access = access_info.read_access
              /\ access_info'.read_misses = access_info.read_misses
              /\ access_info'.write_access = access_info.write_access + 1

C2_ReadWriteSplit == []C2_SplitExact /\ [][C2_NoCrossCount]_vars

(* reads and writes have both missed, one of them on a block seen before *)
C2_Witness ==
    /\ access_info.read_misses >= 1
    /\ access_info.write_misses >= 1
    /\ access_info.cache_misses > access_info.compulsory_misses
    /\ access_info.cache_access > access_info.cache_misses

(***************************************************************************)
(* C3: compulsory_misses equals the number of distinct block addresses     *)
(* presented, the history holds exactly those block addresses, each once;  *)
(* the first access to a block address adds one compulsory miss and one    *)
(* history entry, a later access to it adds none.                          *)
(***************************************************************************)
C3_HistoryExact ==
    /\ access_info.compulsory_misses = Cardinality(Presented)
    /\ {accessed_blocks[i] : i \in 1..Len(accessed_blocks)} = Presented
    /\ \A i, j \in 1..Len(accessed_blocks) :
          accessed_blocks[i] = accessed_blocks[j] => i = j

C3_FirstTouchOnly ==
    Call =>
        LET first == BlockAddress(cfg, CallAddress) \notin Presented
        IN /\ access_info'.compulsory_misses =
                 access_info.compulsory_misses + (IF first THEN 1 ELSE 0)
           /\ accessed_blocks' =
                 IF first
                 THEN Append(accessed_blocks, BlockAddress(cfg, CallAddress))
                 ELSE accessed_blocks

C3_CompulsoryOncePerBlock == []C3_HistoryExact /\ [][C3_FirstTouchOnly]_vars

(* a block address came back after another one had been presented *)
C3_Witness ==
    /\ Len(trace) >= 3
    /\ BlockAddress(cfg, trace[1][2]) = BlockAddress(cfg, LastAddress)
    /\ BlockAddress(cfg, trace[2][2]) # BlockAddress(cfg, LastAddress)
    /\ access_info.compulsory_misses = 2

(***************************************************************************)
(* C4: direct mapped cache of N blocks, two block addresses a and a+N      *)
(* accessed alternately from the empty cache, reads and writes mixed: the  *)
(* first two accesses are compulsory misses and every later access adds    *)
(* exactly one conflict miss.                                              *)
(***************************************************************************)
(* pairs of trace addresses whose block addresses are N apart *)
ConflictPairs ==
    {p \in Addresses(cfg) \X Addresses(cfg) :
        \/ BlockAddress(cfg, p[2]) = BlockAddress(cfg, p[1]) + NumBlocks(cfg)
        \/ BlockAddress(cfg, p[1]) = BlockAddress(cfg, p[2]) + NumBlocks(cfg)}

(* the trace so far alternates between the two addresses of such a pair *)
Alternates ==
    /\ Called
    /\ \E p \in ConflictPairs :
          \A i \in 1..Len(trace) : trace[i][2] = IF i % 2 = 1 THEN p[1] ELSE p[2]

C4_AlternationConflicts ==
    IsDirect(cfg) /\ Alternates =>
        /\ access_info.compulsory_misses = (IF Len(trace) >= 2 THEN 2 ELSE Len(trace))
        /\ access_info.conflict_misses = (IF Len(trace) > 2 THEN Len(trace) - 2 ELSE 0)
        /\ access_info.capacity_misses = 0
        /\ access_info.cache_misses = Len(trace)

(* four alternating accesses, reads and writes mixed, two conflict misses *)
C4_Witness ==
    /\ IsDirect(cfg)
    /\ Alternates
    /\ Len(trace) = 4
    /\ trace[3][1] = "r"
    /\ trace[4][1] = "w"
    /\ access_info.conflict_misses = 2

(***************************************************************************)
(* C5: fully associative cache of W ways under LRU, from the empty cache:  *)
(* after W+1 distinct block addresses the (W+1)-th access has evicted the  *)
(* first of them, and the re-access of the first is counted as one         *)
(* capacity miss.                                                          *)
(***************************************************************************)
TraceBlock(i) == BlockAddress(cfg, trace[i][2])
TraceTag(i) == AddrTag(cfg, trace[i][2])

ValidTags(set_index) ==
    {cache_blocks[set_index][w].tag :
        w \in {w \in 1..Ways(cfg) : cache_blocks[set_index][w].valid}}

C5_LruEvictsFirst ==
    LET W == Ways(cfg)
    IN /\ IsFully(cfg)
       /\ cfg.policy = LRU
       /\ Len(trace) >= W + 1
       /\ \A i, j \in 1..(W + 1) : TraceBlock(i) = TraceBlock(j) => i = j
       => /\ Len(trace) = W + 1 =>
                /\ last.kind = "evict"
                /\ TraceTag(1) \notin ValidTags(0)
          /\ (Len(trace) = W + 2 /\ trace[W + 2][2] = trace[1][2]) =>
                /\ last.kind = "evict"
                /\ access_info.capacity_misses = 1

(***************************************************************************)
(* C6: 2-way set associative LRU cache, cache_size 1024, block_size 64,    *)
(* from the empty cache: three addresses of one set with pairwise distinct *)
(* tags, then the first again.  The third access evicts the first tag, the *)
(* fourth is the only capacity miss (capacity 1, compulsory 3).            *)
(***************************************************************************)
C6_TwoWayLruScenario ==
    /\ cfg = Config(1024, 64, 2, LRU)
    /\ Len(trace) >= 3
    /\ \A i, j \in 1..3 :
          /\ SetIndex(cfg, trace[i][2]) = SetIndex(cfg, trace[1][2])
          /\ TraceTag(i) = TraceTag(j) => i = j
    => /\ Len(trace) = 3 =>
             /\ last.kind = "evict"
             /\ ValidTags(SetIndex(cfg, trace[1][2])) = {TraceTag(2), TraceTag(3)}
       /\ (Len(trace) = 4 /\ trace[4][2] = trace[1][2]) =>
             /\ last.kind = "evict"
             /\ access_info.capacity_misses = 1
             /\ access_info.compulsory_misses = 3
             /\ ValidTags(SetIndex(cfg, trace[1][2])) = {TraceTag(3), TraceTag(1)}

(***************************************************************************)
(* C7: direct mapped: an access adds one to cache_misses exactly when the  *)
(* indexed block is invalid or holds another tag, and an access whose tag  *)
(* matches the valid indexed block changes no miss counter.  With 16       *)
(* blocks of 64 bytes, read 0x0, read 0x40, read 0x0 gives 3 accesses,     *)
(* 2 compulsory misses, 2 misses, no conflict or capacity miss.            *)
(***************************************************************************)
C7_MissIffNoMatch ==
    Call /\ IsDirect(cfg) =>
        LET block == cache_blocks[BlockAddress(cfg, CallAddress) % NumBlocks(cfg)][1]
            nomatch == ~block.valid \/ block.tag # AddrTag(cfg, CallAddress)
        IN /\ access_info'.cache_misses =
                 access_info.cache_misses + (IF nomatch THEN 1 ELSE 0)
           /\ ~nomatch => MissCounters(access_info') = MissCounters(access_info)

C7_Scenario ==
    /\ IsDirect(cfg) /\ cfg.cache_size = 1024 /\ cfg.block_size = 64
    /\ trace = << <<"r", 0>>, <<"r", 64>>, <<"r", 0>> >>
    => /\ access_info.cache_access = 3
       /\ access_info.compulsory_misses = 2
       /\ access_info.cache_misses = 2
       /\ access_info.conflict_misses = 0
       /\ access_info.capacity_misses = 0

C7_DirectMappedMisses == []C7_Scenario /\ [][C7_MissIffNoMatch]_vars

(* the end of the scenario: the third access hit block 0 *)
C7_Witness ==
    /\ IsDirect(cfg) /\ NumBlocks(cfg) = 16 /\ cfg.block_size = 64
    /\ trace = << <<"r", 0>>, <<"r", 64>>, <<"r", 0>> >>
    /\ last.kind = "hit"

(***************************************************************************)
(* C8: a read of an address whose set was last accessed by a write of the  *)
(* same address changes no miss counter and finds a dirty block with the   *)
(* address's tag; no access clears a dirty flag except the eviction of     *)
(* that very block.                                                        *)
(***************************************************************************)
(* position in the trace of the last access to a set, 0 if there is none *)
LastInSet(set_index) ==
    LET hits == {i \in 1..Len(trace) : SetIndex(cfg, trace[i][2]) = set_index}
    IN IF hits = {} THEN 0 ELSE CHOOSE i \in hits : \A j \in hits : j <= i

ReadsBack ==
    /\ Call
    /\ CallOp = "r"
    /\ LastInSet(SetIndex(cfg, CallAddress)) > 0
    /\ trace[LastInSet(SetIndex(cfg, CallAddress))] = <<"w", CallAddress>>

C8_RoundTrip ==
    ReadsBack =>
        /\ MissCounters(access_info') = MissCounters(access_info)
        /\ last'.kind = "hit"
        /\ \E w \in 1..Ways(cfg) :
              LET b == cache_blocks'[SetIndex(cfg, CallAddress)][w]
              IN b.dirty /\ b.tag = AddrTag(cfg, CallAddress)
        /\ \A b \in AllBlocks(cache_blocks) :
              b.dirty => BlockOf(cache_blocks', b.id).dirty

C8_DirtySticky ==
    Call =>
        \A b \in AllBlocks(cache_blocks) :
            b.dirty /\ ~BlockOf(cache_blocks', b.id).dirty =>
                last'.kind = "evict" /\ last'.id = b.id

C8_WriteThenRead == [][C8_RoundTrip /\ C8_DirtySticky]_vars

(* write, an access to another set, then the read back *)
C8_Witness ==
    /\ IsSetAssoc(cfg)
    /\ Len(trace) = 3
    /\ trace[1][1] = "w" /\ trace[3] = <<"r", trace[1][2]>>
    /\ SetIndex(cfg, trace[2][2]) # SetIndex(cfg, trace[1][2])
    /\ last.kind = "hit"
    /\ BlockOf(cache_blocks, last.id).dirty

(***************************************************************************)
(* C9: right after write(address) the block that resolved the access is    *)
(* dirty, holds the address's tag and lies in the address's set.           *)
(***************************************************************************)
C9_WriteLeavesDirtyTag ==
    Called /\ LastOp = "w" =>
        /\ BlockOf(cache_blocks, last.id).dirty
        /\ BlockOf(cache_blocks, last.id).tag = AddrTag(cfg, LastAddress)
        /\ last.set_index = SetIndex(cfg, LastAddress)
        /\ \E w \in 1..Ways(cfg) : cache_blocks[last.set_index][w].id = last.id

(* a write that evicted a victim chosen by the policy *)
C9_Witness ==
    /\ Called /\ LastOp = "w"
    /\ ~IsDirect(cfg)
    /\ last.kind = "evict"
    /\ BlockOf(cache_blocks, last.id).dirty

(***************************************************************************)
(* C10: dirty_blocks_evicted grows by one exactly on an access that evicts *)
(* a dirty block, whose dirty flag the eviction clears (a read leaves the  *)
(* victim clean); a hit or a fill leaves the counter and every set dirty   *)
(* flag alone.                                                             *)
(***************************************************************************)
C10_Step ==
    Call =>
        LET evicting == last'.kind = "evict"
            victim == BlockOf(cache_blocks, last'.id)
        IN /\ access_info'.dirty_blocks_evicted =
                 access_info.dirty_blocks_evicted
                     + (IF evicting /\ victim.dirty THEN 1 ELSE 0)
           /\ evicting /\ CallOp = "r" => ~BlockOf(cache_blocks', last'.id).dirty
           /\ ~evicting =>
                 \A b \in AllBlocks(cache_blocks) :
                     b.dirty => BlockOf(cache_blocks', b.id).dirty

C10_DirtyEvictions == [][C10_Step]_vars

(* a read has just evicted a dirty block *)
C10_Witness ==
    /\ Called /\ LastOp = "r"
    /\ last.kind = "evict"
    /\ access_info.dirty_blocks_evicted = 1
    /\ Len(trace) = 3
    /\ trace[1][1] = "w" /\ trace[2][1] = "r"
    /\ ~BlockOf(cache_blocks, last.id).dirty

(***************************************************************************)
(* C11: misses are attributed by organization.  The direct mapped cache    *)
(* never counts a capacity miss and the associative caches never count a   *)
(* conflict miss; a replacement for a block address seen before adds one   *)
(* conflict miss (direct mapped) or one capacity miss (associative), and a *)
(* replacement for a block address never seen is counted as compulsory     *)
(* only.                                                                   *)
(***************************************************************************)
C11_ByOrganization ==
    /\ IsDirect(cfg) => access_info.capacity_misses = 0
    /\ ~IsDirect(cfg) => access_info.conflict_misses = 0

C11_Step ==
    Call =>
        LET seen == BlockAddress(cfg, CallAddress) \in Presented
            repeat == last'.kind = "evict" /\ seen
        IN /\ access_info'.conflict_misses = access_info.conflict_misses
                 + (IF IsDirect(cfg) /\ repeat THEN 1 ELSE 0)
           /\ access_info'.capacity_misses = access_info.capacity_misses
                 + (IF ~IsDirect(cfg) /\ repeat THEN 1 ELSE 0)
           /\ last'.kind = "evict" /\ ~seen =>
                 /\ access_info'.compulsory_misses = access_info.compulsory_misses + 1
                 /\ access_info'.cache_misses = access_info.cache_misses + 1

C11_MissAttribution == []C11_ByOrganization /\ [][C11_Step]_vars

(* an associative cache has evicted for a block address seen before, after *)
(* three first-touch misses one of which had to evict as well              *)
C11_Witness ==
    /\ ~IsDirect(cfg)
    /\ Len(trace) = 4
    /\ last.kind = "evict"
    /\ last.previously_accessed
    /\ access_info.compulsory_misses = 3
    /\ access_info.capacity_misses = 1

(***************************************************************************)
(* C12: in the fully associative and set associative organizations an      *)
(* access is resolved as a hit only on a valid block of the target set     *)
(* that holds the address's tag; an invalid block is never a tag match.    *)
(***************************************************************************)
C12_HitOnlyOnValid ==
    Called /\ ~IsDirect(cfg) /\ last.kind = "hit" =>
        /\ BlockOf(cache_blocks, last.id).valid
        /\ BlockOf(cache_blocks, last.id).tag = AddrTag(cfg, LastAddress)
        /\ last.set_index = SetIndex(cfg, LastAddress)

(***************************************************************************)
(* C13: in every reachable state of every organization each block is       *)
(* Invalid (not valid, not dirty), Valid-Clean or Valid-Dirty: no block is *)
(* invalid and dirty at the same time.                                     *)
(***************************************************************************)
C13_NoInvalidDirty ==
    \A b \in AllBlocks(cache_blocks) : b.dirty => b.valid

(***************************************************************************)
(* C14: every block starts invalid, and a block that is valid stays valid: *)
(* no read or write clears a valid flag, every block stays in its set, so  *)
(* the number of valid blocks of a set never decreases and a full set      *)
(* stays full.                                                             *)
(***************************************************************************)
ValidIds(blocks, set_index) ==
    {blocks[set_index][w].id :
        w \in {w \in 1..Len(blocks[set_index]) : blocks[set_index][w].valid}}

SetIds(blocks, set_index) ==
    {blocks[set_index][w].id : w \in 1..Len(blocks[set_index])}

C14_StartInvalid == \A b \in AllBlocks(cache_blocks) : ~b.valid

C14_Step ==
    \A set_index \in DOMAIN cache_blocks :
        /\ SetIds(cache_blocks', set_index) = SetIds(cache_blocks, set_index)
        /\ ValidIds(cache_blocks, set_index) \subseteq ValidIds(cache_blocks', set_index)
        /\ Cardinality(ValidIds(cache_blocks', set_index))
              >= Cardinality(ValidIds(cache_blocks, set_index))

C14_ValidForever == C14_StartInvalid /\ [][C14_Step]_vars

(* a full set of two ways has gone through an eviction and is still full *)
C14_Witness ==
    /\ Called
    /\ Ways(cfg) = 2
    /\ last.kind = "evict"
    /\ Cardinality(ValidIds(cache_blocks, last.set_index)) = 2

(***************************************************************************)
(* C15: under LRU the blocks of every set are ordered by the time of their *)
(* last access: never touched ways first, the block of the most recent     *)
(* access to the set at the back; get_victim_index returns 0, and every    *)
(* eviction removes the least recently touched block of the set.           *)
(***************************************************************************)
(* position in the trace of the last call that ended on the block, 0 if    *)
(* none did                                                                *)
LastTouch(id) ==
    LET hits == {i \in 1..Len(touched) : touched[i] = id}
    IN IF hits = {} THEN 0 ELSE CHOOSE i \in hits : \A j \in hits : j <= i

C15_Ordered ==
    cfg.policy = LRU =>
        \A set_index \in DOMAIN cache_blocks :
            LET data == cache_blocks[set_index]
            IN /\ \A w1, w2 \in 1..Len(data) :
                     w1 < w2 =>
                        /\ LastTouch(data[w1].id) <= LastTouch(data[w2].id)
                        /\ LastTouch(data[w2].id) = 0 => LastTouch(data[w1].id) = 0
                        /\ LastTouch(data[w1].id) > 0 =>
                              LastTouch(data[w1].id) < LastTouch(data[w2].id)
               /\ LastInSet(set_index) > 0 =>
                     data[Len(data)].id = touched[LastInSet(set_index)]
               /\ \A rnd \in RandValues :
                     get_victim_index(cfg.policy, Ways(cfg), meta_data[set_index], rnd) = 0

C15_EvictsLeastRecent ==
    Call /\ cfg.policy = LRU /\ last'.kind = "evict" =>
        LET data == cache_blocks[last'.set_index]
        IN /\ last'.id = data[1].id
           /\ \A w \in 1..Len(data) : LastTouch(last'.id) <= LastTouch(data[w].id)

C15_LruOrder == []C15_Ordered /\ [][C15_EvictsLeastRecent]_vars

(* two ways filled, the older one touched again, then an eviction: the     *)
(* victim is the block filled second                                       *)
C15_Witness ==
    /\ cfg.policy = LRU
    /\ Ways(cfg) = 2
    /\ Len(touched) = 4
    /\ touched[2] # touched[1]
    /\ touched[3] = touched[1]
    /\ last.kind = "evict"
    /\ last.id = touched[2]

(***************************************************************************)
(* C16: under pseudo-LRU get_victim_index depends on the internal-node     *)
(* bits of the set only.  A call repeated with no mark_accessed in between *)
(* returns the same way; the way returned is the leaf reached from the     *)
(* root going left on a 0 bit and right on any other; the leaf cells (and  *)
(* the tags they were copied from) do not influence the result.            *)
(***************************************************************************)
(* values a leaf cell can hold: its initial -1 or a copied tag *)
LeafValues == {-1, 0, GarbageTag} \cup ReplTags

(* number of levels below the root: ways = 2^TreeDepth *)
TreeDepth(ways) == CHOOSE d \in 0..5 : 2^d = ways

(* the nodes from the root down to a leaf, each the left child of the one  *)
(* before when that one holds 0, the right child otherwise                 *)
PathFromRoot(set_meta_data, ways) ==
    CHOOSE path \in [1..(TreeDepth(ways) + 1) -> 0..(2 * ways - 2)] :
        /\ path[1] = 0
        /\ \A k \in 1..TreeDepth(ways) :
              path[k + 1] = IF set_meta_data[path[k] + 1] = 0
                            THEN 2 * path[k] + 1
                            ELSE 2 * path[k] + 2

(* the tree with other contents in its leaf cells *)
WithLeaves(set_meta_data, ways, leaves) ==
    [j \in 1..Len(set_meta_data) |->
        IF j - 1 < ways - 1 THEN set_meta_data[j] ELSE leaves[j]]

C16_PseudoLruVictim ==
    alive /\ cfg.policy = PSEUDO_LRU =>
        \A set_index \in DOMAIN meta_data :
            LET tree == meta_data[set_index]
                ways == Ways(cfg)
                victim == get_victim_index(cfg.policy, ways, tree, 0)
            IN /\ victim = PathFromRoot(tree, ways)[TreeDepth(ways) + 1] - (ways - 1)
               /\ \A rnd \in RandValues, leaves \in [ways..(2 * ways - 1) -> LeafValues] :
                     get_victim_index(cfg.policy, ways,
                                      WithLeaves(tree, ways, leaves), rnd) = victim
               /\ last.kind = "victim" /\ last.set_index = set_index =>
                     last.id = victim

(* four ways: a call returned way 2 (right at the root, left below) after  *)
(* tags had been copied into leaf cells and installed in blocks            *)
C16_Witness ==
    /\ alive /\ cfg.policy = PSEUDO_LRU /\ Ways(cfg) = 4
    /\ last.kind = "victim"
    /\ last.id = 2
    /\ \E j \in 4..7 : meta_data[0][j] \in ReplTags
    /\ \E j \in 4..7 : meta_data[0][j] = -1
    /\ \E w \in 1..4 : cache_blocks[0][w].tag \in ReplTags

(***************************************************************************)
(* C17: get_victim_index is a pure selection under every policy: a call    *)
(* leaves the valid, dirty and tag fields of every block, the order of the *)
(* blocks of every set, the pseudo-LRU trees and the counters unchanged.   *)
(***************************************************************************)
(* the step is a get_victim_index call that returned *)
VictimCall == last'.kind = "victim" /\ last' # last

C17_Step ==
    VictimCall =>
        /\ cache_blocks' = cache_blocks
        /\ meta_data' = meta_data
        /\ access_info' = access_info
        /\ accessed_blocks' = accessed_blocks

C17_PureSelection == [][C17_Step]_vars

(* a selection made under LRU on four ways, once the blocks have been     *)
(* reordered and tagged                                                    *)
C17_Witness ==
    /\ alive /\ cfg.policy = LRU /\ Ways(cfg) = 4
    /\ last.kind = "victim"
    /\ cache_blocks[0][1].id # 0
    /\ \E w \in 1..4 : cache_blocks[0][w].valid

(***************************************************************************)
(* C18: under pseudo-LRU with two ways or more mark_accessed(set, way)     *)
(* flips exactly the internal-node bits on the path from the parent of the *)
(* way's leaf up to the root, each once; every other internal-node bit of  *)
(* the set and the trees of the other sets are unchanged, and the          *)
(* internal-node bits stay 0 or 1.                                         *)
(***************************************************************************)
(* the internal nodes above the leaf of a way: with the nodes numbered     *)
(* from 1, the node above node j is j \div 2                               *)
Ancestors(ways, way) ==
    {((ways + way) \div (2^k)) - 1 : k \in 1..TreeDepth(ways)}

InternalNodes(ways) == 0..(ways - 2)

C18_FlipsPath ==
    alive /\ cfg.policy = PSEUDO_LRU /\ Ways(cfg) >= 2 =>
        \A set_index \in DOMAIN meta_data :
            LET tree == meta_data[set_index]
                ways == Ways(cfg)
            IN /\ \A n \in InternalNodes(ways) : tree[n + 1] \in {0, 1}
               /\ \A way \in 0..(ways - 1) :
                     LET after == mark_accessed(cfg.policy, ways,
                                                cache_blocks[set_index], tree,
                                                way).meta_data
                     IN \A n \in InternalNodes(ways) :
                           after[n + 1] = IF n \in Ancestors(ways, way)
                                          THEN 1 - tree[n + 1]
                                          ELSE tree[n + 1]

(* a step that changes a tree is the mark_accessed call recorded in last *)
C18_Step ==
    cfg.policy = PSEUDO_LRU /\ Ways(cfg) >= 2 /\ meta_data' # meta_data =>
        /\ last'.kind = "mark"
        /\ \A s \in DOMAIN meta_data :
              meta_data'[s] =
                 IF s = last'.set_index
                 THEN mark_accessed(cfg.policy, Ways(cfg), cache_blocks[s],
                                    meta_data[s], last'.id).meta_data
                 ELSE meta_data[s]

C18_MarkFlipsAncestors == []C18_FlipsPath /\ [][C18_Step]_vars

(* four ways: way 0 then way 3 were marked, the root is back to 0 and both *)
(* nodes of the second level are 1                                         *)
C18_Witness ==
    /\ alive /\ cfg.policy = PSEUDO_LRU /\ Ways(cfg) = 4
    /\ last.kind = "mark" /\ last.id = 3
    /\ SubSeq(meta_data[0], 1, 3) = <<0, 1, 1>>

(***************************************************************************)
(* C19: for each of the three policies, for every number of ways the       *)
(* organizations construct and every reachable metadata state,             *)
(* get_victim_index returns a way index in [0, ways), and the pseudo-LRU   *)
(* walk ends on a leaf.                                                    *)
(***************************************************************************)
KnownPolicy == cfg.policy \in {RANDOM, LRU, PSEUDO_LRU}

C19_VictimInRange ==
    KnownPolicy /\ last.kind = "victim" =>
        /\ last.id \in 0..(Ways(cfg) - 1)
        /\ cfg.policy = PSEUDO_LRU =>
              TreeWalk(meta_data[last.set_index], Ways(cfg), 0)
                  \in (Ways(cfg) - 1)..(2 * Ways(cfg) - 2)

(* the same for the geometries that have a block at all *)
VictimInRangeWhenBlocks == Ways(cfg) >= 1 => C19_VictimInRange

(***************************************************************************)
(* C20: a precondition violation in the replacement policy, such as a      *)
(* policy value that is none of the three, is signalled as a fault: the    *)
(* call does not return normally, nothing is modified, and no index out of *)
(* range such as -1 reaches the caller.                                    *)
(***************************************************************************)
C20_ViolationsFault ==
    ~KnownPolicy => last.kind \notin {"victim", "mark"}

(***************************************************************************)
(* C21: in every organization the set index and the tag computed from an   *)
(* address identify its block address: two accesses of a run that go to    *)
(* the same set with the same tag are accesses to the same block address.  *)
(***************************************************************************)
C21_TagIdentifiesBlock ==
    \A i, j \in 1..Len(trace) :
        /\ SetIndex(cfg, trace[i][2]) = SetIndex(cfg, trace[j][2])
        /\ TraceTag(i) = TraceTag(j)
        => TraceBlock(i) = TraceBlock(j)

(* the same for the direct mapped organization alone *)
TagIdentifiesBlockWhenDirect == IsDirect(cfg) => C21_TagIdentifiesBlock

(***************************************************************************)
(* C22: under pseudo-LRU with two ways or more an eviction never selects   *)
(* the way that the most recent access to the set touched: the most        *)
(* recently used block of a set is never the next victim.                  *)
(***************************************************************************)
(* position in the trace of the access to the set before the last call, 0  *)
(* if there is none                                                        *)
PreviousInSet(set_index) ==
    LET before == {i \in 1..(Len(trace) - 1) : SetIndex(cfg, trace[i][2]) = set_index}
    IN IF before = {} THEN 0 ELSE CHOOSE i \in before : \A j \in before : j <= i

C22_VictimNotMostRecent ==
    /\ Called
    /\ cfg.policy = PSEUDO_LRU /\ ~IsDirect(cfg) /\ Ways(cfg) >= 2
    /\ last.kind = "evict"
    /\ PreviousInSet(last.set_index) > 0
    => last.id # touched[PreviousInSet(last.set_index)]

(***************************************************************************)
(* C23: in the associative organizations a victim is selected only on an   *)
(* access whose set holds no block with the address's tag and no invalid   *)
(* way; the tag of a valid block is never overwritten while its set has an *)
(* invalid way; a fill takes the first invalid way in the set's current    *)
(* order.                                                                  *)
(***************************************************************************)
C23_Step ==
    Call /\ ~IsDirect(cfg) =>
        LET set_index == SetIndex(cfg, CallAddress)
            data == cache_blocks[set_index]
            invalid == {w \in 1..Len(data) : ~data[w].valid}
        IN /\ last'.kind = "evict" =>
                 /\ invalid = {}
                 /\ \A w \in 1..Len(data) : data[w].tag # AddrTag(cfg, CallAddress)
           /\ \A b \in AllBlocks(cache_blocks) :
                 b.valid /\ BlockOf(cache_blocks', b.id).tag # b.tag =>
                    /\ invalid = {}
                    /\ \E w \in 1..Len(data) : data[w].id = b.id
           /\ last'.kind = "fill" =>
                 /\ invalid # {}
                 /\ last'.id = data[CHOOSE w \in invalid : \A v \in invalid : w <= v].id

C23_VictimOnlyWhenFull == [][C23_Step]_vars

(* two fills in a set of two ways under LRU, the second into the way that  *)
(* had moved to the front, and then an eviction                            *)
C23_Witness ==
    /\ ~IsDirect(cfg) /\ Ways(cfg) = 2 /\ cfg.policy = LRU
    /\ Len(touched) = 3
    /\ touched[1] = 0 /\ touched[2] = 1
    /\ last.kind = "evict"

(***************************************************************************)
(* The handlers as functions agree with the handlers as actions: a step of *)
(* the simulator that draws nothing (no unread tag in the target set, no   *)
(* random victim) leads to the state CacheStep computes.                   *)
(***************************************************************************)
HandlersAgree_Step ==
    Call /\ (IsDirect(cfg) \/
              /\ cfg.policy # RANDOM
              /\ \A w \in 1..Ways(cfg) :
                    cache_blocks[SetIndex(cfg, CallAddress)][w].tag # NoTag) =>
        CacheState(cache_blocks', meta_data', access_info', accessed_blocks') =
            CacheStep(cfg,
                      CacheState(cache_blocks, meta_data, access_info, accessed_blocks),
                      CallAddress, CallOp = "w")

HandlersAgree == [][HandlersAgree_Step]_vars

(***************************************************************************)
(* C24: under LRU or pseudo-LRU a fully associative cache and the          *)
(* set-associative cache of the same sizes with ways = num_blocks are in   *)
(* identical states after every access of the same sequence: valid, dirty  *)
(* and tag of the blocks in the same way order, policy metadata, history   *)
(* and the ten counters.                                                   *)
(***************************************************************************)
(* valid, dirty and tag of the blocks of a cache, set by set, way by way *)
Contents(blocks) ==
    [s \in DOMAIN blocks |->
        [w \in 1..Len(blocks[s]) |->
            <<blocks[s][w].valid, blocks[s][w].dirty, blocks[s][w].tag>>]]

FullyWithSingleSet ==
    /\ IsFully(cfg[1]) /\ IsSetAssoc(cfg[2])
    /\ cfg[2].associativity = NumBlocks(cfg[1])

C24_SingleSetSameAsFully ==
    FullyWithSingleSet /\ Len(trace[1]) > 0 =>
        /\ Contents(cache_blocks[1]) = Contents(cache_blocks[2])
        /\ meta_data[1] = meta_data[2]
        /\ accessed_blocks[1] = accessed_blocks[2]
        /\ access_info[1] = access_info[2]

(***************************************************************************)
(* C25: read and write differ in counters and dirty bits only.  Two runs   *)
(* of one cache with a policy that draws no random number, over the same   *)
(* addresses with any reads and writes, have after every access the same   *)
(* valid flags, tags, way order, policy metadata and history, and the same *)
(* cache_access, cache_misses, compulsory, capacity and conflict misses.   *)
(***************************************************************************)
(* valid flag, tag and identity of the blocks, set by set, in way order *)
Layout(blocks) ==
    [s \in DOMAIN blocks |->
        [w \in 1..Len(blocks[s]) |->
            <<blocks[s][w].id, blocks[s][w].valid, blocks[s][w].tag>>]]

SharedCounters(info) ==
    <<info.cache_access, info.cache_misses, info.compulsory_misses,
      info.capacity_misses, info.conflict_misses>>

C25_ReadWriteSameStructure ==
    cfg[1] = cfg[2] =>
        /\ Layout(cache_blocks[1]) = Layout(cache_blocks[2])
        /\ meta_data[1] = meta_data[2]
        /\ accessed_blocks[1] = accessed_blocks[2]
        /\ SharedCounters(access_info[1]) = SharedCounters(access_info[2])

(* three reads against three writes of the same addresses, ending in an   *)
(* eviction that only the second run counts as a dirty one                 *)
C25_Witness ==
    /\ cfg[1] = cfg[2]
    /\ ~IsDirect(cfg[1])
    /\ Len(trace[1]) = 3
    /\ \A i \in 1..3 : trace[1][i][1] = "r" /\ trace[2][i][1] = "w"
    /\ access_info[1].cache_misses = 3
    /\ access_info[1].dirty_blocks_evicted = 0
    /\ access_info[2].dirty_blocks_evicted = 1

(***************************************************************************)
(* The driver alone: main() reads a configuration, makes its checks and,   *)
(* when they pass, the simulate_* function builds the cache and hands it   *)
(* the first line of the trace.  Only the geometry is followed here.       *)
(***************************************************************************)
DriverInputs ==
    {Config(cs, bs, as, pol) :
        cs \in {0, 32, 64, 96, 128, 256}, bs \in {0, 48, 64, 128},
        as \in {FULLY_ASSOCIATIVE, DIRECT_MAPPED, 2, 3, 4, 64},
        pol \in {RANDOM, LRU, PSEUDO_LRU}}

DriverAddresses == {0, 64, 4096}

DriverInit ==
    /\ cfg \in DriverInputs
    /\ alive = TRUE
    /\ cache_blocks = <<>>
    /\ meta_data = <<>>
    /\ access_info = NewAccessInfo
    /\ accessed_blocks = <<>>
    /\ trace = <<>>
    /\ last = [kind |-> "input"]
    /\ touched = <<>>

(* main(): "return 1" on a failed check, else the constructor runs *)
DriverCheck ==
    /\ last.kind = "input"
    /\ IF Accepted(cfg)
       THEN /\ last' = [kind |-> "constructed",
                        num_blocks |-> NumBlocks(cfg),
                        num_sets |-> NumSets(cfg)]
            /\ UNCHANGED alive
       ELSE /\ last' = [kind |-> "rejected"]
            /\ alive' = FALSE
    /\ UNCHANGED <<cfg, cache_blocks, meta_data, access_info,
                   accessed_blocks, trace, touched>>

(* the divisor of the set index: "block_address % num_blocks" in the       *)
(* direct mapped cache, "(address >> line_bits) % num_sets" in the set     *)
(* associative one; the fully associative cache computes no remainder      *)
IndexDivisor(c) ==
    IF IsDirect(c) THEN NumBlocks(c)
    ELSE IF IsFully(c) THEN 1
    ELSE NumSets(c)

(* read()/write(): the set index of the first access.  A remainder by 0    *)
(* is undefined: the process traps or goes on with some value.             *)
DriverAccess(op, address) ==
    /\ last.kind = "constructed"
    /\ alive
    /\ trace' = Append(trace, <<op, address>>)
    /\ IF IndexDivisor(cfg) = 0
       THEN /\ last' = [kind |-> "modulo_zero"]
            /\ alive' \in BOOLEAN
       ELSE /\ last' = [kind |-> "indexed",
                        set_index |-> BlockAddress(cfg, address) % IndexDivisor(cfg)]
            /\ UNCHANGED alive
    /\ UNCHANGED <<cfg, cache_blocks, meta_data, access_info,
                   accessed_blocks, touched>>

DriverNext ==
    \/ DriverCheck
    \/ \E op \in {"r", "w"}, address \in DriverAddresses : DriverAccess(op, address)

DriverSpec == DriverInit /\ [][DriverNext]_vars

(***************************************************************************)
(* C26: every configuration that passes the driver's checks has a          *)
(* well-formed geometry: at least one block, and for a set associative     *)
(* cache a number of ways that divides the number of blocks and at least   *)
(* one set, so that no access computes a set index modulo 0; every other   *)
(* configuration is rejected before a simulation runs.                     *)
(***************************************************************************)
WellFormed(c) ==
    /\ NumBlocks(c) >= 1
    /\ IsSetAssoc(c) =>
          /\ NumBlocks(c) % c.associativity = 0
          /\ NumSets(c) >= 1

C26_GeometryWellFormed ==
    /\ last.kind \in {"constructed", "indexed", "modulo_zero"} =>
          /\ Accepted(cfg)
          /\ WellFormed(cfg)
    /\ last.kind # "modulo_zero"
    /\ last.kind = "rejected" => ~Accepted(cfg)

(* the part of C26 that the checks do ensure: a cache at least as large as *)
(* one block per way has a well-formed geometry, and nothing unchecked runs *)
GeometryWellFormedWhenLargeEnough ==
    /\ last.kind \in {"constructed", "indexed", "modulo_zero"} =>
          /\ Accepted(cfg)
          /\ cfg.cache_size >= cfg.block_size
                 * (IF IsSetAssoc(cfg) THEN cfg.associativity ELSE 1)
               => WellFormed(cfg) /\ last.kind # "modulo_zero"
    /\ last.kind = "rejected" => ~Accepted(cfg)

(***************************************************************************)
(* C27: one access adds 0 or 1 to cache_misses and adds to at most one of  *)
(* compulsory_misses, capacity_misses and conflict_misses; so the misses   *)
(* never exceed the accesses, in total and for reads and writes apart.     *)
(***************************************************************************)
C27_Step ==
    /\ access_info'.cache_misses - access_info.cache_misses \in {0, 1}
    /\ \A k \in {"compulsory_misses", "capacity_misses", "conflict_misses"} :
          access_info'[k] - access_info[k] \in {0, 1}
    /\ Cardinality({k \in {"compulsory_misses", "capacity_misses", "conflict_misses"} :
                       access_info'[k] # access_info[k]}) <= 1

C27_Bounded ==
    /\ access_info.cache_misses <= access_info.cache_access
    /\ access_info.read_misses <= access_info.read_access
    /\ access_info.write_misses <= access_info.write_access

C27_AtMostOneMissPerAccess == []C27_Bounded /\ [][C27_Step]_vars

(* a first touch, a hit and a repeated miss of either kind have all happened *)
C27_Witness ==
    /\ access_info.compulsory_misses >= 1
    /\ access_info.capacity_misses + access_info.conflict_misses >= 1
    /\ access_info.cache_misses < access_info.cache_access
    /\ access_info.read_misses >= 1
    /\ access_info.write_misses >= 1

(***************************************************************************)
(* C28: in the fully associative and set associative caches no set ever    *)
(* holds two valid blocks with the same tag; a fill or an eviction         *)
(* installs a tag only when no valid block of the target set carries it.   *)
(***************************************************************************)
C28_Distinct ==
    ~IsDirect(cfg) =>
        \A s \in DOMAIN cache_blocks :
            \A w1, w2 \in 1..Len(cache_blocks[s]) :
                /\ w1 # w2
                /\ cache_blocks[s][w1].valid
                /\ cache_blocks[s][w2].valid
                => cache_blocks[s][w1].tag # cache_blocks[s][w2].tag

C28_Step ==
    /\ ~IsDirect(cfg)
    /\ trace' # trace
    /\ last'.kind \in {"fill", "evict"}
    => \A w \in 1..Len(cache_blocks[last'.set_index]) :
          cache_blocks[last'.set_index][w].valid
          => cache_blocks[last'.set_index][w].tag
                 # BlockOf(cache_blocks', last'.id).tag

C28_NoDuplicateTags == []C28_Distinct /\ [][C28_Step]_vars

(* a full set of two valid blocks into which an eviction has installed a   *)
(* new tag                                                                 *)
C28_Witness ==
    /\ ~IsDirect(cfg)
    /\ Called
    /\ last.kind = "evict"
    /\ Ways(cfg) >= 2
    /\ \A w \in 1..Ways(cfg) : cache_blocks[last.set_index][w].valid

(***************************************************************************)
(* C29: dirty_blocks_evicted never exceeds write_access nor cache_misses:  *)
(* only a write sets a dirty flag, a counted dirty eviction replaces a     *)
(* block that was dirty and clears its flag, and it happens on an access   *)
(* that is counted as a miss.                                              *)
(***************************************************************************)
C29_Bounded ==
    /\ access_info.dirty_blocks_evicted <= access_info.write_access
    /\ access_info.dirty_blocks_evicted <= access_info.cache_misses

C29_Step ==
    trace' # trace =>
        /\ \A b \in AllBlocks(cache_blocks') :
              b.dirty /\ ~BlockOf(cache_blocks, b.id).dirty
              => trace'[Len(trace')][1] = "w"
        /\ access_info'.dirty_blocks_evicted # access_info.dirty_blocks_evicted
           => /\ access_info'.dirty_blocks_evicted
                    = access_info.dirty_blocks_evicted + 1
              /\ last'.kind = "evict"
              /\ BlockOf(cache_blocks, last'.id).dirty
              /\ BlockOf(cache_blocks', last'.id).dirty
                    = (trace'[Len(trace')][1] = "w")
              /\ access_info'.cache_misses = access_info.cache_misses + 1

C29_DirtyEvictionsBounded == []C29_Bounded /\ [][C29_Step]_vars

(* a dirty block has been evicted by a read *)
C29_Witness ==
    /\ Called
    /\ LastOp = "r"
    /\ last.kind = "evict"
    /\ access_info.dirty_blocks_evicted >= 1
    /\ ~BlockOf(cache_blocks, last.id).dirty

(***************************************************************************)
(* C30: one read or write changes the valid, dirty and tag fields of at    *)
(* most one block, a block of the set the address maps to; the blocks,     *)
(* way order and policy metadata of every other set stay as they were,     *)
(* and in the target set only the way order (LRU) or the tree of the set   *)
(* (pseudo-LRU) changes besides the resolved block.                        *)
(***************************************************************************)
(* a tag that was never assigned holds the same value before and after *)
SameTag(before, after) ==
    \/ after.tag = before.tag
    \/ before.tag = NoTag /\ after.tag \in UninitTags

IdsInOrder(data) == [w \in 1..Len(data) |-> data[w].id]

C30_Step ==
    trace' # trace =>
        LET s == last'.set_index
            id == last'.id
            address == trace'[Len(trace')][2]
        IN /\ s = SetIndex(cfg, address)
           /\ id \in SetIds(cache_blocks, s)
           /\ DOMAIN cache_blocks' = DOMAIN cache_blocks
           /\ \A t \in DOMAIN cache_blocks \ {s} :
                 /\ cache_blocks'[t] = cache_blocks[t]
                 /\ meta_data'[t] = meta_data[t]
           /\ SetIds(cache_blocks', s) = SetIds(cache_blocks, s)
           /\ Len(cache_blocks'[s]) = Len(cache_blocks[s])
           /\ \A b \in AllBlocks(cache_blocks) :
                 b.id # id =>
                    /\ BlockOf(cache_blocks', b.id).valid = b.valid
                    /\ BlockOf(cache_blocks', b.id).dirty = b.dirty
                    /\ SameTag(b, BlockOf(cache_blocks', b.id))
           /\ IsDirect(cfg) \/ cfg.policy # LRU
                 => IdsInOrder(cache_blocks'[s]) = IdsInOrder(cache_blocks[s])
           /\ IsDirect(cfg) \/ cfg.policy # PSEUDO_LRU
                 => meta_data'[s] = meta_data[s]

C30_OneBlockOneSet == [][C30_Step]_vars

(* an eviction in one set of a cache of several sets while another set     *)
(* holds a valid block                                                     *)
C30_Witness ==
    /\ IsSetAssoc(cfg)
    /\ NumSets(cfg) >= 2
    /\ Called
    /\ last.kind = "evict"
    /\ \E t \in DOMAIN cache_blocks \ {last.set_index} :
          \E w \in 1..Len(cache_blocks[t]) : cache_blocks[t][w].valid

====
